---- MODULE Spec2Model ----
(***************************************************************************)
(* Recording-session lifecycle of src-tauri/src/lib.rs.                    *)
(*                                                                         *)
(* VoiceState is the process-wide state (lib.rs 6-10): `process` is the    *)
(* Mutex<Option<Child>> and `model_path` the Mutex<String>.  The commands  *)
(* start_recording and stop_recording are async tauri commands, so several *)
(* calls may be in progress at once; every task below is one caller that   *)
(* issues one command at a time.  A command is cut into steps at the       *)
(* points where it touches shared state or an external process: a lock     *)
(* guard of the form `*state.x.lock().unwrap() = v` lives for exactly one  *)
(* statement, which is therefore one atomic step.                          *)
(***************************************************************************)
EXTENDS Naturals, FiniteSets, Sequences, TLC

\* Number of concurrent callers of the commands.
NumTasks == 2
\* Number of engine processes that can be spawned in one behaviour.
MaxSpawn == 2
\* Longest standard output of the engine, in bytes.
MaxLen == 4

Tasks == 1..NumTasks
Children == 1..MaxSpawn

\* Option::None for Option<Child>; children are numbered from 1.
NoChild == 0

\* RecordingConfig.model_size values supplied by the front end.
ModelSizes == {"large", "small", "Large", "medium", ""}

\* Results of the commands.  Errors are the message prefixes of lib.rs.
RetNone == "none"
RetOk == "Ok(())"
RetText == "Ok(text)"
ErrNotFound == "nerd-dictation not found"
ErrConfig == "Configuration file not found"
ErrSpawn == "Failed to start recording"
ErrEnd == "Failed to end recording"
ErrWait == "Failed to read recording output"
ErrNoProcess == "No recording process found"
RetStatus == "Ok(status)"
ErrInsert == "Failed to insert text"
ErrXdotool == "xdotool failed"

VARIABLES
    process,        \* VoiceState.process: NoChild or the stored child
    model_path,     \* VoiceState.model_path
    status,         \* per child: "unspawned", "running", "reaped"
    nextChild,      \* number of the next child to be spawned
    pc,             \* per task: position in the command it is running
    op,             \* per task: the command it runs or ran last
    found,          \* per task: the files its call finds on the host, among
                    \* those it looks for ("engine", "config")
    child,          \* per task: the child the call owns (start: from spawn
                    \* to store; stop: the child it took, kept until the
                    \* task's next call for reference)
    endOut,         \* per task: outcome of the end-command of its stop call
    wrote,          \* per task: the call has changed VoiceState.process
    ret,            \* per task: result of its last finished command
    process_lock,   \* holder of the guard of VoiceState.process
    model_path_lock,\* holder of the guard of VoiceState.model_path
    resolved,       \* the model_dir of the start_recording call entered
                    \* last, <<>> before the first
    output,         \* the Output of wait_with_output whose transcript is
                    \* extracted: <<>> or <<[stdout, stderr]>>
    text,           \* the transcript extracted from it: <<>> or <<text>>
    logged,         \* the standard error was written to the log
    deps,           \* the host a check_voice_system call probes: <<>> or
                    \* <<host>>
    voice_status,   \* the VoiceSystemStatus it returns: <<>> or <<status>>
    config,         \* the RecordingConfig of a start_recording call: <<>>
                    \* or <<config>>
    model_dir,      \* the model directory resolved from it: <<>> or <<dir>>
    args            \* the arguments of the engine command built from it

\* The variables of the computations that touch no shared state and are
\* studied on one call: they stay as they are while the commands interleave.
transcript == <<output, text, logged>>
probing == <<deps, voice_status>>
command == <<config, model_dir, args>>

calc == <<transcript, probing, command>>

\* The two mutexes of VoiceState.
locks == <<process_lock, model_path_lock>>

vars == <<process, model_path, status, nextChild, pc, op, found, child,
          endOut, wrote, ret, locks, resolved, calc>>

\* Holder of a mutex that no task has locked.
NoHolder == 0

\* $HOME, as read by std::env::var("HOME").
Home == "/home/user"

\* A resolver that compares the selector without regard to case.
ModelName_IgnoreCase(model_size) ==
    IF model_size \in {"large", "Large"} THEN "vosk-model-en-us-0.22"
                                         ELSE "vosk-model-small-en-us-0.15"

\* Model directory name chosen from RecordingConfig.model_size.
ModelName(model_size) ==
    IF model_size = "large" THEN "vosk-model-en-us-0.22"
                            ELSE "vosk-model-small-en-us-0.15"

\* format!("{}/.local/share/vosk-models/{}", home, model_name), as the
\* sequence of its path components.
ModelDir(model_size) ==
    <<Home, ".local", "share", "vosk-models", ModelName(model_size)>>

\* which::which("nerd-dictation").or_else(|_| which::which($HOME/.local/bin/..)):
\* onPath says that the executable is on the search path, inHome that it is
\* at $HOME/.local/bin/nerd-dictation.
Locate(onPath, inHome) == onPath \/ inHome

\* The files a call finds, given where the engine is installed and whether
\* $HOME/.config/nerd-dictation/nerd-dictation.py exists.
Host(onPath, inHome, configExists) ==
    (IF Locate(onPath, inHome) THEN {"engine"} ELSE {})
        \cup (IF configExists THEN {"config"} ELSE {})

\* The hosts a start_recording call can meet, and those a stop_recording
\* call can meet (it does not look for the configuration file).
StartHosts == {Host(a, b, c) : a, b, c \in BOOLEAN}
StopHosts == {Host(a, b, FALSE) : a, b \in BOOLEAN}

\* The model directories start_recording can resolve.
ModelDirs == {ModelDir(m) : m \in ModelSizes}

\* The `?` after the engine lookup lets the call go on.
EngineGate(f) == "engine" \in f

\* A configuration check that lets every call go on.
ConfigGate_Skipped(f) == TRUE

\* std::path::Path::new(&config_file).exists() lets the call go on.
ConfigGate(f) == "config" \in f

\* A store that is lost: the assignment goes to a copy of the state.
StoreChild_Lost(old, c) == old

\* Value of VoiceState.process after `*state.process.lock().unwrap() = Some(child)`.
StoreChild(old, c) == c

\* A take that reads the child and leaves it in place.
TakeLeaves_Kept(p) == p

\* Value left in VoiceState.process by Option::take.
TakeLeaves(p) == NoChild

\* A spawn failure that clears the stored child.
SpawnFailureLeaves_Cleared(p) == NoChild

\* VoiceState.process after a failed spawn: `?` returns before the store.
SpawnFailureLeaves(p) == p

\* A stop without a child that reports an empty transcript.
NoProcessResult_Text == RetText

\* Result of stop_recording when the take found no child.
NoProcessResult == ErrNoProcess

\* Result of start_recording when the configuration file does not exist.
ConfigMissingResult == ErrConfig

\* Outcomes of Command::new(..).arg("end").output(): the command could not
\* be launched, or it ran and exited with status zero or non-zero.
EndOutcomes == {"launchfail", "exit0", "nonzero"}

\* `.output().map_err(..)?` fails on a launch error only; the exit status in
\* _end_output is not inspected.
EndReturnsError(out) == out = "launchfail"

\* A stop that waits for the child without running the end-command.
AfterLookup_WaitFirst == "t_wait"

\* Where stop_recording goes on after it has located the engine: to the
\* end-command of lines 105-108.
AfterLookup == "t_end"

\* A guard that outlives its statement and stays with the task.
GuardAfterStatement_Held(t) == t

\* Holder of a mutex after a statement `*state.x.lock().unwrap() = v` or
\* `state.x.lock().unwrap().take()` of task t: the guard is a temporary and
\* is dropped at the end of the statement.
GuardAfterStatement(t) == NoHolder

\* A start that records the model directory once its gates have passed.
RecordedPath_AfterGates(old, dir, f) ==
    IF EngineGate(f) /\ ConfigGate(f) THEN dir ELSE old

\* Value of VoiceState.model_path after line 36, which comes before the
\* engine lookup and the configuration check.
RecordedPath(old, dir, f) == dir

TypeOK ==
    /\ process \in Children \cup {NoChild}
    /\ model_path \in {<<>>} \cup ModelDirs
    /\ status \in [Children -> {"unspawned", "running", "reaped"}]
    /\ nextChild \in 1..(MaxSpawn + 1)
    /\ pc \in [Tasks -> {"idle", "s_spawn", "s_store", "t_end", "t_wait"}]
    /\ op \in [Tasks -> {"none", "start", "stop", "insert", "check"}]
    /\ found \in [Tasks -> SUBSET {"engine", "config"}]
    /\ child \in [Tasks -> Children \cup {NoChild}]
    /\ endOut \in [Tasks -> EndOutcomes \cup {"none"}]
    /\ wrote \in [Tasks -> BOOLEAN]
    /\ ret \in [Tasks -> {RetNone, RetOk, RetText, ErrNotFound, ErrConfig,
                          ErrSpawn, ErrEnd, ErrWait, ErrNoProcess, RetStatus,
                          ErrInsert, ErrXdotool}]
    /\ process_lock \in Tasks \cup {NoHolder}
    /\ model_path_lock \in Tasks \cup {NoHolder}
    /\ resolved \in {<<>>} \cup ModelDirs

\* No transcript, no probe, no engine command is under study.
TranscriptIdle == output = <<>> /\ text = <<>> /\ logged = FALSE
ProbeIdle == deps = <<>> /\ voice_status = <<>>
CommandIdle == config = <<>> /\ model_dir = <<>> /\ args = <<>>

CalcIdle == TranscriptIdle /\ ProbeIdle /\ CommandIdle

\* VoiceState::default(), no command issued yet.
Session0 ==
    /\ process = NoChild
    /\ model_path = <<>>
    /\ status = [h \in Children |-> "unspawned"]
    /\ nextChild = 1
    /\ pc = [t \in Tasks |-> "idle"]
    /\ op = [t \in Tasks |-> "none"]
    /\ found = [t \in Tasks |-> {}]
    /\ child = [t \in Tasks |-> NoChild]
    /\ endOut = [t \in Tasks |-> "none"]
    /\ wrote = [t \in Tasks |-> FALSE]
    /\ ret = [t \in Tasks |-> RetNone]
    /\ process_lock = NoHolder
    /\ model_path_lock = NoHolder
    /\ resolved = <<>>

Init == Session0 /\ CalcIdle

\* The variables of the session and of its callers.
session == <<process, model_path, status, nextChild, pc, op, found, child,
             endOut, wrote, ret, locks, resolved>>

\* Task t's command returns r.
Return(t, r) ==
    /\ pc' = [pc EXCEPT ![t] = "idle"]
    /\ ret' = [ret EXCEPT ![t] = r]

\* start_recording, lines 26-52: resolve the model directory and record it
\* in VoiceState, then pass the two gates (engine located, configuration
\* file present) or return the error of the first gate that fails.  The
\* gates read the host only, so they are taken in the same step.
start_recording(t) ==
    /\ pc[t] = "idle"
    /\ model_path_lock = NoHolder
    /\ model_path_lock' = GuardAfterStatement(t)
    /\ \E dir \in ModelDirs, f \in StartHosts :
          /\ resolved' = dir
          /\ model_path' = RecordedPath(model_path, dir, f)
          /\ found' = [found EXCEPT ![t] = f]
          /\ IF ~EngineGate(f) THEN Return(t, ErrNotFound)
             ELSE IF ~ConfigGate(f) THEN Return(t, ConfigMissingResult)
             ELSE /\ pc' = [pc EXCEPT ![t] = "s_spawn"]
                  /\ ret' = [ret EXCEPT ![t] = RetNone]
    /\ op' = [op EXCEPT ![t] = "start"]
    /\ child' = [child EXCEPT ![t] = NoChild]
    /\ endOut' = [endOut EXCEPT ![t] = "none"]
    /\ wrote' = [wrote EXCEPT ![t] = FALSE]
    /\ UNCHANGED <<process, status, nextChild, process_lock>>
    /\ UNCHANGED calc

\* start_recording, lines 54-82: build the command and spawn the engine.
\* The operating system decides whether the spawn succeeds.
start_spawn(t) ==
    /\ pc[t] = "s_spawn"
    /\ \/ /\ nextChild <= MaxSpawn
          /\ child' = [child EXCEPT ![t] = nextChild]
          /\ status' = [status EXCEPT ![nextChild] = "running"]
          /\ nextChild' = nextChild + 1
          /\ pc' = [pc EXCEPT ![t] = "s_store"]
          /\ UNCHANGED <<process, wrote, ret>>
       \/ /\ process' = SpawnFailureLeaves(process)
          /\ wrote' = [wrote EXCEPT ![t] = wrote[t] \/ process' # process]
          /\ Return(t, ErrSpawn)
          /\ UNCHANGED <<child, status, nextChild>>
    /\ UNCHANGED <<model_path, op, found, endOut>>
    /\ UNCHANGED <<locks, resolved>>
    /\ UNCHANGED calc

\* start_recording, lines 84-87: store the handle; the child moves into
\* VoiceState and the value stored before is dropped (dropping a Child
\* neither kills nor waits for the process).
start_store(t) ==
    /\ pc[t] = "s_store"
    /\ process_lock = NoHolder
    /\ process_lock' = GuardAfterStatement(t)
    /\ UNCHANGED <<model_path_lock, resolved>>
    /\ process' = StoreChild(process, child[t])
    /\ wrote' = [wrote EXCEPT ![t] = wrote[t] \/ process' # process]
    /\ child' = [child EXCEPT ![t] = NoChild]
    /\ Return(t, RetOk)
    /\ UNCHANGED <<model_path, status, nextChild, op, found, endOut>>
    /\ UNCHANGED calc

\* stop_recording, lines 93-103 and 125-128: take the stored child; with no
\* child return the error, with one locate the engine again.  When the
\* engine is not found the call returns and the child it took is dropped
\* (dropping a Child neither kills nor waits for the process).
stop_recording(t) ==
    /\ pc[t] = "idle"
    /\ process_lock = NoHolder
    /\ process_lock' = GuardAfterStatement(t)
    /\ UNCHANGED <<model_path_lock, resolved>>
    /\ op' = [op EXCEPT ![t] = "stop"]
    /\ child' = [child EXCEPT ![t] = process]
    /\ process' = TakeLeaves(process)
    /\ wrote' = [wrote EXCEPT ![t] = process' # process]
    /\ endOut' = [endOut EXCEPT ![t] = "none"]
    /\ IF process = NoChild
          THEN /\ found' = [found EXCEPT ![t] = {}]
               /\ Return(t, NoProcessResult)
          ELSE \E f \in StopHosts :
                  /\ found' = [found EXCEPT ![t] = f]
                  /\ IF ~EngineGate(f) THEN Return(t, ErrNotFound)
                     ELSE /\ pc' = [pc EXCEPT ![t] = AfterLookup]
                          /\ ret' = [ret EXCEPT ![t] = RetNone]
    /\ UNCHANGED <<model_path, status, nextChild>>
    /\ UNCHANGED calc

\* stop_recording, lines 105-108: run `nerd-dictation end` to completion.
stop_end(t) ==
    /\ pc[t] = "t_end"
    /\ \E out \in EndOutcomes :
          /\ endOut' = [endOut EXCEPT ![t] = out]
          /\ IF EndReturnsError(out)
                THEN Return(t, ErrEnd)
                ELSE pc' = [pc EXCEPT ![t] = "t_wait"] /\ UNCHANGED ret
    /\ UNCHANGED <<process, model_path, status, nextChild, op, found, child,
                   wrote>>
    /\ UNCHANGED <<locks, resolved>>
    /\ UNCHANGED calc

\* stop_recording, lines 110-124: wait_with_output blocks until the child
\* has exited; the step is the return of that call.  Either the child was
\* reaped and the trimmed standard output is returned, or the call failed
\* and the child is dropped as it is.
stop_wait(t) ==
    /\ pc[t] = "t_wait"
    /\ \/ /\ status' = [status EXCEPT ![child[t]] = "reaped"]
          /\ Return(t, RetText)
       \/ /\ Return(t, ErrWait)
          /\ UNCHANGED status
    /\ UNCHANGED <<process, model_path, nextChild, op, found, child, endOut,
                   wrote>>
    /\ UNCHANGED <<locks, resolved>>
    /\ UNCHANGED calc

\* Outcomes of Command::new("xdotool")..output(): the command could not be
\* launched, or it ran and exited with status zero or non-zero.
InsertOutcomes == {"launchfail", "exit0", "nonzero"}

\* Result of insert_text for an outcome of xdotool (lines 141-150).
InsertResult(out) ==
    IF out = "launchfail" THEN ErrInsert
    ELSE IF out = "nonzero" THEN ErrXdotool
    ELSE RetOk

\* A call that runs no session step: the locals of start and stop are unset.
NoSessionLocals(t) ==
    /\ found' = [found EXCEPT ![t] = {}]
    /\ child' = [child EXCEPT ![t] = NoChild]
    /\ endOut' = [endOut EXCEPT ![t] = "none"]
    /\ wrote' = [wrote EXCEPT ![t] = FALSE]

\* An insert_text that ends the session it finds.
insert_text_EndsSession(t) ==
    /\ pc[t] = "idle"
    /\ op' = [op EXCEPT ![t] = "insert"]
    /\ \E out \in InsertOutcomes : Return(t, InsertResult(out))
    /\ NoSessionLocals(t)
    /\ process' = NoChild
    /\ UNCHANGED <<model_path, status, nextChild>>
    /\ UNCHANGED <<locks, resolved>>
    /\ UNCHANGED calc

\* insert_text, lines 132-151: run xdotool on the text and report how it
\* went.  The command has no State parameter.
insert_text(t) ==
    /\ pc[t] = "idle"
    /\ op' = [op EXCEPT ![t] = "insert"]
    /\ \E out \in InsertOutcomes : Return(t, InsertResult(out))
    /\ NoSessionLocals(t)
    /\ UNCHANGED <<process, model_path, status, nextChild>>
    /\ UNCHANGED <<locks, resolved>>
    /\ UNCHANGED calc

\* check_voice_system, lines 154-197: probe the host and return the status;
\* it never returns an error.  The command has no State parameter.  The
\* fields of the status are computed by probe_host below.
check_voice_system(t) ==
    /\ pc[t] = "idle"
    /\ op' = [op EXCEPT ![t] = "check"]
    /\ Return(t, RetStatus)
    /\ NoSessionLocals(t)
    /\ UNCHANGED <<process, model_path, status, nextChild>>
    /\ UNCHANGED <<locks, resolved>>
    /\ UNCHANGED calc

(***************************************************************************)
(* The transcript extraction of stop_recording on one Output.              *)
(***************************************************************************)

\* Bytes the engine can write: white space, a letter, and a byte that is
\* not valid UTF-8.
Bytes == {" ", "\n", "a", "xFF"}

\* The byte strings of at most n bytes.
ByteStrings(n) == UNION {[1..k -> Bytes] : k \in 0..n}

\* The Outputs wait_with_output can return for an exited engine.
Outputs == [stdout : ByteStrings(MaxLen), stderr : {<<>>, <<"a">>}]

\* String::from_utf8_lossy: invalid bytes become U+FFFD.
Lossy(bytes) ==
    [i \in 1..Len(bytes) |-> IF bytes[i] = "xFF" THEN "U+FFFD" ELSE bytes[i]]

\* char::is_whitespace on the characters above.
IsWhitespace(c) == c \in {" ", "\n"}

RECURSIVE TrimStart(_)
\* str::trim_start
TrimStart(str) ==
    IF str # <<>> /\ IsWhitespace(Head(str)) THEN TrimStart(Tail(str)) ELSE str

RECURSIVE TrimEnd(_)
\* str::trim_end
TrimEnd(str) ==
    IF str # <<>> /\ IsWhitespace(str[Len(str)])
        THEN TrimEnd(SubSeq(str, 1, Len(str) - 1))
        ELSE str

\* A trim that removes leading white space only.
Trim_StartOnly(str) == TrimStart(str)

\* str::trim
Trim(str) == TrimEnd(TrimStart(str))

\* stop_recording, lines 115-124, on the Output of the exited engine: the
\* transcript is the trimmed standard output; a non-empty standard error is
\* logged and changes nothing else.
extract_text ==
    /\ output # <<>> /\ text = <<>>
    /\ text' = <<Trim(Lossy(output[1].stdout))>>
    /\ logged' = (output[1].stderr # <<>>)
    /\ UNCHANGED <<output, session, probing, command>>

\* An engine has exited with any Output; nothing is extracted yet.
TranscriptInit ==
    /\ Session0
    /\ output \in {<<o>> : o \in Outputs}
    /\ text = <<>>
    /\ logged = FALSE
    /\ ProbeIdle /\ CommandIdle

TranscriptSpec == TranscriptInit /\ [][extract_text]_vars

(***************************************************************************)
(* The probe of check_voice_system on one host.                            *)
(***************************************************************************)

\* Longest output of `pactl list sources short`, in words.
MaxWords == 2

\* Words of the output of pactl: "input" is the text looked for.
Words == {"input", "output", "monitor"}

\* Outcomes of Command::new("pactl")..output(): Err when pactl is
\* unavailable or could not be run, else Ok with its standard output (the
\* exit status of pactl is not read).
PactlOutcomes ==
    {[ok |-> FALSE, stdout |-> <<>>]}
        \cup {[ok |-> TRUE, stdout |-> w] :
                 w \in UNION {[1..k -> Words] : k \in 0..MaxWords}}

\* The hosts a probe can meet: where the engine is installed, whether
\* xdotool is on the search path, which model directories exist, and what
\* running pactl gives.
ProbeHosts ==
    [onPath : BOOLEAN, inHome : BOOLEAN, xdotool : BOOLEAN,
     small : BOOLEAN, large : BOOLEAN, pactl : PactlOutcomes]

\* String::from_utf8_lossy(&output.stdout).contains("input")
ContainsInput(stdout) == \E i \in 1..Len(stdout) : stdout[i] = "input"

\* A probe that gives up on the other checks when the engine is missing.
Probe_StopsAtEngine(h) ==
    IF ~Locate(h.onPath, h.inHome)
        THEN [nerd_dictation |-> FALSE, xdotool |-> FALSE,
              vosk_model_small |-> FALSE, vosk_model_large |-> FALSE,
              microphone |-> FALSE]
        ELSE [nerd_dictation |-> TRUE, xdotool |-> h.xdotool,
              vosk_model_small |-> h.small, vosk_model_large |-> h.large,
              microphone |-> h.pactl.ok /\ ContainsInput(h.pactl.stdout)]

\* check_voice_system, lines 156-194: the five fields of the status.
Probe(h) ==
    [nerd_dictation |-> Locate(h.onPath, h.inHome),
     xdotool |-> h.xdotool,
     vosk_model_small |-> h.small,
     vosk_model_large |-> h.large,
     microphone |-> IF h.pactl.ok THEN ContainsInput(h.pactl.stdout)
                                  ELSE FALSE]

\* check_voice_system, lines 154-197, on one host: Ok(status).
probe_host ==
    /\ deps # <<>> /\ voice_status = <<>>
    /\ voice_status' = <<Probe(deps[1])>>
    /\ UNCHANGED <<deps, session, transcript, command>>

\* A check_voice_system call is about to probe any host.
ProbeInit ==
    /\ Session0
    /\ TranscriptIdle /\ CommandIdle
    /\ deps \in {<<h>> : h \in ProbeHosts}
    /\ voice_status = <<>>

ProbeSpec == ProbeInit /\ [][probe_host]_vars

(***************************************************************************)
(* The engine command start_recording builds from one RecordingConfig.     *)
(***************************************************************************)

\* Largest RecordingConfig.timeout supplied by the front end.
MaxTimeout == 12

\* The RecordingConfig values of a call.
RecordingConfigs ==
    [timeout : 0..MaxTimeout, model_size : ModelSizes,
     auto_punctuation : BOOLEAN, numbers_as_digits : BOOLEAN]

\* start_recording, lines 26-33: resolve the model directory.  The file
\* system is not consulted and the step has no error exit.
resolve_model ==
    /\ config # <<>> /\ model_dir = <<>>
    /\ model_dir' = <<ModelDir(config[1].model_size)>>
    /\ UNCHANGED <<config, args, session, transcript, probing>>

\* format!("{}/.config/nerd-dictation/nerd-dictation.py", home), as the
\* sequence of its path components.
ConfigFile == <<Home, ".config", "nerd-dictation", "nerd-dictation.py">>

\* The decimal digits, by value.
DigitChars == <<"0", "1", "2", "3", "4", "5", "6", "7", "8", "9">>

\* u32::to_string: the decimal digits of n, most significant first.
RECURSIVE to_string(_)
to_string(n) ==
    IF n < 10 THEN <<DigitChars[n + 1]>>
              ELSE Append(to_string(n \div 10), DigitChars[(n % 10) + 1])

\* A command whose two optional flags are added in the other order.
BeginArgs_PunctuationFirst(c, dir) ==
    LET fixed == <<"begin", "--vosk-model-dir", dir,
                   "--timeout", to_string(c.timeout),
                   "--config", ConfigFile,
                   "--output", "STDOUT", "--defer-output">>
        punct == IF c.auto_punctuation
                    THEN Append(fixed, "--full-sentence") ELSE fixed
    IN  IF c.numbers_as_digits
           THEN Append(punct, "--numbers-as-digits") ELSE punct

\* start_recording, lines 55-77: the arguments given to the command, each
\* cmd.arg adding one at the end.
BeginArgs(c, dir) ==
    LET fixed == <<"begin", "--vosk-model-dir", dir,
                   "--timeout", to_string(c.timeout),
                   "--config", ConfigFile,
                   "--output", "STDOUT", "--defer-output">>
        digits == IF c.numbers_as_digits
                     THEN Append(fixed, "--numbers-as-digits") ELSE fixed
    IN  IF c.auto_punctuation
           THEN Append(digits, "--full-sentence") ELSE digits

\* start_recording, lines 54-77: build the engine command from the config
\* and the resolved model directory.
build_command ==
    /\ model_dir # <<>> /\ args = <<>>
    /\ args' = BeginArgs(config[1], model_dir[1])
    /\ UNCHANGED <<config, model_dir, session, transcript, probing>>

\* A start_recording call arrives with any RecordingConfig.
CommandInit ==
    /\ Session0
    /\ TranscriptIdle /\ ProbeIdle
    /\ config \in {<<c>> : c \in RecordingConfigs}
    /\ model_dir = <<>>
    /\ args = <<>>

CommandSpec == CommandInit /\ [][resolve_model \/ build_command]_vars

Next ==
    \/ \E t \in Tasks : start_recording(t)
    \/ \E t \in Tasks : start_spawn(t)
    \/ \E t \in Tasks : start_store(t)
    \/ \E t \in Tasks : stop_recording(t)
    \/ \E t \in Tasks : stop_end(t)
    \/ \E t \in Tasks : stop_wait(t)
    \/ \E t \in Tasks : insert_text(t)
    \/ \E t \in Tasks : check_voice_system(t)

Spec == Init /\ [][Next]_vars

\* The two commands that take the State argument, on their own:
\* insert_text and check_voice_system have no access to VoiceState.
SessionNext ==
    \/ \E t \in Tasks : start_recording(t)
    \/ \E t \in Tasks : start_spawn(t)
    \/ \E t \in Tasks : start_store(t)
    \/ \E t \in Tasks : stop_recording(t)
    \/ \E t \in Tasks : stop_end(t)
    \/ \E t \in Tasks : stop_wait(t)

SessionSpec == Init /\ [][SessionNext]_vars

\* A call in progress goes on: the scheduler runs every task again and
\* again, and the external process a step stands for (the spawn, the
\* end-command, the exit of the engine that wait_with_output waits for)
\* terminates.
Fairness ==
    \A t \in Tasks :
        /\ WF_vars(start_spawn(t))
        /\ WF_vars(start_store(t))
        /\ WF_vars(stop_end(t))
        /\ WF_vars(stop_wait(t))

FairSpec == Spec /\ Fairness

(***************************************************************************)
(* Vocabulary of the properties.                                           *)
(***************************************************************************)

\* Task t's last command was o and it has returned.
Returned(t, o) == op[t] = o /\ pc[t] = "idle"

\* Task t took a step: some variable of its own changed.
StepOf(t) ==
    <<pc[t], op[t], found[t], child[t], endOut[t], wrote[t], ret[t]>>'
        # <<pc[t], op[t], found[t], child[t], endOut[t], wrote[t], ret[t]>>

\* The errors of stop_recording that the error taxonomy calls StopFailed.
StopFailed == {ErrNotFound, ErrEnd, ErrWait}

\* The engine processes that were spawned and have not been waited on.
ActiveChildren == {h \in Children : status[h] = "running"}

(***************************************************************************)
(* Properties.                                                             *)
(***************************************************************************)

\* C1: a start_recording call that runs while VoiceState.process holds a
\* child spawns no engine process and leaves the stored child unchanged.
C1_StartRejectedWhenActive ==
    [][\A t \in Tasks :
          (StepOf(t) /\ op[t] = "start" /\ pc[t] # "idle" /\ process # NoChild)
              => (process' = process /\ nextChild' = nextChild)]_vars

\* C2: at most one engine process is active (spawned and not waited on) in
\* every reachable state.
C2_AtMostOneActive == Cardinality(ActiveChildren) <= 1

\* C3: when two start_recording calls, the only commands in flight since
\* Idle, have both spawned an engine and returned, exactly one of the two
\* children is in VoiceState.process and neither call owns a child any more.
C3_TwoStartsRetainOne ==
    \A t1, t2 \in Tasks :
        (/\ t1 # t2
         /\ Returned(t1, "start") /\ ret[t1] = RetOk
         /\ Returned(t2, "start") /\ ret[t2] = RetOk
         /\ nextChild = 3
         /\ \A t \in Tasks \ {t1, t2} : op[t] = "none")
            => /\ process \in {1, 2}
               /\ child[t1] = NoChild /\ child[t2] = NoChild

\* C3 witness: both calls returned and the child spawned first is the one
\* retained, so the stores happened in the opposite order of the spawns.
C3_Witness ==
    \E t1, t2 \in Tasks :
        /\ t1 # t2
        /\ Returned(t1, "start") /\ ret[t1] = RetOk
        /\ Returned(t2, "start") /\ ret[t2] = RetOk
        /\ nextChild = 3
        /\ \A t \in Tasks \ {t1, t2} : op[t] = "none"
        /\ process = 1

\* C4: a stored child is taken by exactly one stop_recording call: no two
\* stop calls ever have the same child, a stop call in progress owns a child
\* that is no longer in VoiceState.process, and a stop call that got no child
\* returned "No recording process found".
C4_TakeOnce ==
    /\ \A t1, t2 \in Tasks :
          (t1 # t2 /\ op[t1] = "stop" /\ op[t2] = "stop" /\ child[t1] # NoChild)
              => child[t1] # child[t2]
    /\ \A t \in Tasks :
          (op[t] = "stop" /\ pc[t] # "idle")
              => (child[t] # NoChild /\ process # child[t])
    /\ \A t \in Tasks :
          (op[t] = "stop" /\ child[t] = NoChild)
              => (pc[t] = "idle" /\ ret[t] = ErrNoProcess)

\* C4 witness: one stop call is ending the session it took while another
\* stop call has returned "No recording process found".
C4_Witness ==
    \E t1, t2 \in Tasks :
        /\ t1 # t2
        /\ op[t1] = "stop" /\ pc[t1] \in {"t_end", "t_wait"}
        /\ Returned(t2, "stop") /\ ret[t2] = ErrNoProcess
        /\ process = NoChild

\* C5: a stop_recording call made while VoiceState.process is empty returns
\* "No recording process found" in that step, looks up no engine, runs no
\* end-command, waits on nothing and leaves VoiceState and every engine
\* process as they were.
C5_StopWhenIdle ==
    [][\A t \in Tasks :
          (process = NoChild /\ pc[t] = "idle" /\ op'[t] = "stop" /\ StepOf(t))
              => /\ pc'[t] = "idle" /\ ret'[t] = ErrNoProcess
                 /\ found'[t] = {} /\ endOut'[t] = "none" /\ child'[t] = NoChild
                 /\ UNCHANGED <<process, model_path, status, nextChild>>]_vars

\* C5 witness: after a session was started, a stop call has returned
\* "No recording process found" and VoiceState.process is empty.
C5_Witness ==
    \E t \in Tasks :
        /\ Returned(t, "stop") /\ ret[t] = ErrNoProcess
        /\ process = NoChild /\ model_path # <<>> /\ nextChild > 1

\* C6 as stated: every start_recording call that finds no configuration
\* file returns "Configuration file not found", spawns nothing and does not
\* change VoiceState.process.
C6_ConfigMissingAlways ==
    \A t \in Tasks :
        (op[t] = "start" /\ "config" \notin found[t])
            => /\ pc[t] = "idle" /\ ret[t] = ErrConfig
               /\ child[t] = NoChild /\ ~wrote[t]

\* C6 amended: a start_recording call that finds no configuration file ends
\* at the gates, spawns nothing and does not change VoiceState.process; it
\* returns "Configuration file not found" when the engine was located and
\* "nerd-dictation not found" when it was not.
C6_ConfigMissing ==
    \A t \in Tasks :
        (op[t] = "start" /\ "config" \notin found[t])
            => /\ pc[t] = "idle"
               /\ ret[t] = IF "engine" \in found[t] THEN ErrConfig ELSE ErrNotFound
               /\ child[t] = NoChild /\ ~wrote[t]

\* C6 witness: a start call from Idle returned "Configuration file not
\* found" with the engine located, and VoiceState.process is still empty.
C6_Witness ==
    \E t \in Tasks :
        /\ Returned(t, "start") /\ ret[t] = ErrConfig
        /\ found[t] = {"engine"}
        /\ process = NoChild /\ nextChild = 1

\* C7: the step of start_recording in which the spawn fails returns
\* "Failed to start recording", and the call has not changed
\* VoiceState.process nor any engine process.
C7_SpawnFailure ==
    [][\A t \in Tasks :
          (pc[t] = "s_spawn" /\ pc'[t] # "s_spawn" /\ nextChild' = nextChild)
              => /\ pc'[t] = "idle" /\ ret'[t] = ErrSpawn
                 /\ process' = process /\ ~wrote'[t]
                 /\ child'[t] = NoChild /\ status' = status]_vars

\* C7 witness: a start call returned "Failed to start recording" while a
\* child stored by an earlier start is still in VoiceState.process.
C7_Witness ==
    \E t \in Tasks :
        /\ Returned(t, "start") /\ ret[t] = ErrSpawn
        /\ process # NoChild

\* C8: whatever a stop_recording call that took a child returns, the
\* transcript or one of the StopFailed errors, the child it took is not in
\* VoiceState.process.
C8_StopLeavesIdle ==
    \A t \in Tasks :
        (Returned(t, "stop") /\ child[t] # NoChild)
            => /\ process # child[t]
               /\ wrote[t]
               /\ ret[t] \in {RetText} \cup StopFailed

\* C8 witness: a stop call that took a child returned a StopFailed error and
\* VoiceState.process is empty.
C8_Witness ==
    \E t \in Tasks :
        /\ Returned(t, "stop") /\ child[t] # NoChild
        /\ ret[t] \in StopFailed
        /\ process = NoChild

\* C9: when a stop_recording call that took a child has returned, the
\* engine process behind that child has exited and been waited on.
C9_StopReapsChild ==
    \A t \in Tasks :
        (Returned(t, "stop") /\ child[t] # NoChild)
            => status[child[t]] = "reaped"

\* C10: a stop_recording call whose end-command failed (engine not found,
\* launch failure, or non-zero exit status) returns a StopFailed error.
C10_EndFailureIsStopFailed ==
    \A t \in Tasks :
        (/\ Returned(t, "stop") /\ child[t] # NoChild
         /\ \/ ~EngineGate(found[t])
            \/ endOut[t] \in {"launchfail", "nonzero"})
            => ret[t] \in StopFailed

\* The byte string is valid text: from_utf8_lossy replaces nothing in it.
ValidText(bytes) == \A i \in 1..Len(bytes) : bytes[i] # "xFF"

\* C11: the transcript returned for an engine that wrote a known text to its
\* standard output is that text without its leading and trailing white
\* space: it neither starts nor ends with white space, and the text is a run
\* of white space, the transcript, and a run of white space.  This holds
\* whatever the engine wrote to its standard error.
C11_TranscriptIsTrimmedStdout ==
    (text # <<>> /\ ValidText(output[1].stdout))
        => LET known == output[1].stdout
               got == text[1]
           IN  /\ got # <<>> =>
                     (~IsWhitespace(got[1]) /\ ~IsWhitespace(got[Len(got)]))
               /\ \E i \in 0..Len(known) : \E j \in i..Len(known) :
                     /\ got = SubSeq(known, i + 1, j)
                     /\ \A k \in 1..i : IsWhitespace(known[k])
                     /\ \A k \in (j + 1)..Len(known) : IsWhitespace(known[k])

\* C11 witness: the engine wrote a text with white space on both sides and
\* something to its standard error; the transcript is the text in between.
C11_Witness ==
    /\ output = <<[stdout |-> <<" ", "a", "a", "\n">>, stderr |-> <<"a">>]>>
    /\ text = <<(<<"a", "a">>)>>
    /\ logged

\* The results insert_text can return.
InsertResults == {RetOk, ErrInsert, ErrXdotool}

\* C12: a step of insert_text or check_voice_system leaves
\* VoiceState.process, VoiceState.model_path and every engine process as
\* they were; and whether a session is active or not, an idle caller can get
\* every result of insert_text and the status of check_voice_system.
C12_ProbeAndInjectLeaveSession ==
    /\ [][\A t \in Tasks :
            (op'[t] \in {"insert", "check"} /\ StepOf(t))
                => UNCHANGED <<process, model_path, status, nextChild>>]_vars
    /\ [](\A t \in Tasks :
            pc[t] = "idle" =>
                /\ \A r \in InsertResults :
                      ENABLED (insert_text(t) /\ ret'[t] = r)
                /\ ENABLED (check_voice_system(t) /\ ret'[t] = RetStatus))

\* C12 witness: while a session is active and its model path recorded, one
\* caller has the status of check_voice_system and another a result of
\* insert_text.
C12_Witness ==
    \E t1, t2 \in Tasks :
        /\ Returned(t1, "check") /\ ret[t1] = RetStatus
        /\ Returned(t2, "insert") /\ ret[t2] = ErrXdotool
        /\ process # NoChild /\ model_path # <<>>

\* The four fields of a status other than f.
OtherFields(f) ==
    {"nerd_dictation", "xdotool", "vosk_model_small", "vosk_model_large",
     "microphone"} \ {f}

\* Two statuses agree on every field other than f.
AgreeExcept(st1, st2, f) == \A g \in OtherFields(f) : st1[g] = st2[g]

C14_ModelPathResolution ==
    /\ (config # <<>> /\ model_dir = <<>>) => ENABLED resolve_model
    /\ model_dir # <<>> =>
          LET dir == model_dir[1]
              size == config[1].model_size
          IN  /\ Len(dir) = 5
              /\ SubSeq(dir, 1, 4) = <<Home, ".local", "share", "vosk-models">>
              /\ size = "large" => dir[5] = "vosk-model-en-us-0.22"
              /\ size # "large" => dir[5] = "vosk-model-small-en-us-0.15"
              /\ size \in {"", "Large", "medium"}
                    => dir[5] = "vosk-model-small-en-us-0.15"

\* C14 witness: the selector "Large" has been resolved to the small model.
C14_Witness ==
    /\ model_dir # <<>>
    /\ config[1].model_size = "Large"
    /\ model_dir[1][5] = "vosk-model-small-en-us-0.15"

\* The number written by a sequence of decimal digits.
RECURSIVE Value(_)
Value(digits) ==
    IF digits = <<>> THEN 0
    ELSE 10 * Value(SubSeq(digits, 1, Len(digits) - 1))
           + (CHOOSE d \in 0..9 : DigitChars[d + 1] = digits[Len(digits)])

\* The optional flags at the end of an argument list.
Flags(a) == SubSeq(a, 11, Len(a))

\* C19: the arguments of the engine command are begin, --vosk-model-dir, the
\* resolved directory, --timeout, the decimal timeout of the config,
\* --config, the configuration file, --output, STDOUT, --defer-output, then
\* --numbers-as-digits exactly when numbers_as_digits is set, then
\* --full-sentence exactly when auto_punctuation is set, and nothing else.
C19_BeginArguments ==
    args # <<>> =>
        LET c == config[1]
        IN  /\ Len(args) = 10 + (IF c.numbers_as_digits THEN 1 ELSE 0)
                              + (IF c.auto_punctuation THEN 1 ELSE 0)
            /\ args[1] = "begin"
            /\ args[2] = "--vosk-model-dir" /\ args[3] = model_dir[1]
            /\ args[4] = "--timeout"
            /\ \A i \in 1..Len(args[5]) :
                  \E d \in 0..9 : DigitChars[d + 1] = args[5][i]
            /\ Value(args[5]) = c.timeout
            /\ args[6] = "--config"
            /\ args[7] = <<Home, ".config", "nerd-dictation",
                           "nerd-dictation.py">>
            /\ args[8] = "--output" /\ args[9] = "STDOUT"
            /\ args[10] = "--defer-output"
            /\ c.numbers_as_digits <=>
                  (Len(args) >= 11 /\ args[11] = "--numbers-as-digits")
            /\ c.auto_punctuation <=>
                  (Len(args) >= 11 /\ args[Len(args)] = "--full-sentence")
            /\ \A i \in 1..Len(Flags(args)) :
                  Flags(args)[i] \in {"--numbers-as-digits", "--full-sentence"}

\* C19 witness: both flags are set and the timeout has two digits: the
\* command ends with --numbers-as-digits --full-sentence.
C19_Witness ==
    /\ args # <<>>
    /\ config[1].numbers_as_digits /\ config[1].auto_punctuation
    /\ config[1].timeout = 10 /\ args[5] = <<"1", "0">>
    /\ Flags(args) = <<"--numbers-as-digits", "--full-sentence">>

\* The end-command of task t's stop has run to completion.
EndCompleted(t) == endOut[t] \in {"exit0", "nonzero"}

\* C15: a stop_recording call that found a child takes it, then runs the
\* end-command, then waits, then returns.  While the end-command is to run
\* the child is already taken and neither ended nor waited for; while the
\* wait is to run the end-command has completed and the child is not yet
\* waited for; a transcript is returned only after the end-command has
\* completed and the child has been waited for.
C15_StopOrder ==
    \A t \in Tasks :
        /\ pc[t] = "t_end" =>
              /\ child[t] # NoChild /\ process # child[t]
              /\ endOut[t] = "none"
              /\ status[child[t]] = "running"
        /\ pc[t] = "t_wait" =>
              /\ child[t] # NoChild /\ process # child[t]
              /\ EndCompleted(t)
              /\ status[child[t]] = "running"
        /\ (Returned(t, "stop") /\ ret[t] \in {RetText, ErrWait}) =>
              /\ child[t] # NoChild
              /\ EndCompleted(t)
        /\ (Returned(t, "stop") /\ ret[t] = RetText) =>
              status[child[t]] = "reaped"

\* C15 witness: a stop has gone through all its steps and returned the
\* transcript of the child it took.
C15_Witness ==
    \E t \in Tasks :
        /\ Returned(t, "stop") /\ ret[t] = RetText
        /\ child[t] # NoChild /\ EndCompleted(t)
        /\ status[child[t]] = "reaped"

\* Task t is blocked on an external process: the engine spawn, the
\* end-command or the wait for the child.
Blocked(t) == pc[t] \in {"s_spawn", "t_end", "t_wait"}

\* C16: no task holds a mutex of VoiceState while it is blocked on an
\* external process, and while a stop_recording call is in progress both
\* mutexes are free, so that the locking step of any other call (the only
\* thing a command waits for besides its own external processes) can be
\* taken; the store and the take leave the mutex free as well.
C16_NoLockWhileBlocked ==
    /\ \A t \in Tasks :
          Blocked(t) => (process_lock # t /\ model_path_lock # t)
    /\ (\E t \in Tasks : pc[t] \in {"t_end", "t_wait"}) =>
          (process_lock = NoHolder /\ model_path_lock = NoHolder)
    /\ \A t \in Tasks :
          (pc[t] = "idle" /\ op[t] \in {"start", "stop"} /\ wrote[t]) =>
              process_lock # t

\* C16 witness: one stop waits for its child while another task is blocked
\* in a spawn, which it reached through the model_path mutex.
C16_Witness ==
    \E t, u \in Tasks :
        /\ pc[t] = "t_wait" /\ pc[u] = "s_spawn"
        /\ process_lock = NoHolder /\ model_path_lock = NoHolder

\* C17: once a start_recording call has been entered, VoiceState.model_path
\* is the directory resolved by the call entered last, whatever that call
\* and the calls around it returned; a step of stop_recording never changes
\* model_path.
C17_ModelPathRecorded ==
    /\ [](resolved # <<>> => model_path = resolved)
    /\ [][\A t \in Tasks : (op'[t] = "stop" /\ StepOf(t))
              => model_path' = model_path]_vars

\* C17 witness: every start so far was stopped at a gate or at the spawn,
\* one of them by the missing engine, and the large-model directory is
\* recorded.
C17_Witness ==
    /\ \E t \in Tasks : Returned(t, "start") /\ ret[t] = ErrNotFound
    /\ \A t \in Tasks : Returned(t, "start") /\ ret[t] # RetOk
    /\ resolved = ModelDir("large")
    /\ model_path = ModelDir("large")

\* C18: with a fair scheduler and external processes that terminate, every
\* start_recording and stop_recording call in progress returns.
C18_CallsReturn ==
    \A t \in Tasks : (pc[t] # "idle") ~> (pc[t] = "idle")

\* C18 witness: a stop that waited for its child has returned while a start
\* of another task has returned as well.
C18_Witness ==
    \E t, u \in Tasks :
        /\ Returned(t, "stop") /\ ret[t] = RetText /\ endOut[t] = "nonzero"
        /\ Returned(u, "start") /\ ret[u] = RetOk

====
